---- MODULE Spec2Model ----
(***************************************************************************)
(* Model of app/main.py: a FastAPI service whose handlers are stateless    *)
(* functions of the request and of two tables fixed at start-up            *)
(* (fake_items_db, fake_user_db).                                          *)
(*                                                                         *)
(* A request is a message in flight: Send* puts one on the wire, and the   *)
(* route's action (parameter validation, dependencies, handler body and    *)
(* response serialisation, all in one step) answers it.                    *)
(*                                                                         *)
(*   Spec       the OAuth2 password flow: POST /token, GET /users/me       *)
(*   SpecItems  the item routes: GET /items, GET /items/{item_id},         *)
(*              GET /users/{user_id}/items/{item_id}, POST /items,         *)
(*              PUT /items/{item_id}                                       *)
(***************************************************************************)
EXTENDS Integers, Sequences, FiniteSets, TLC

VARIABLES
    request,    \* the request being served, or NoRequest
    response,   \* Pending while the request is being served, then the answer
    issued      \* history: membernames for which POST /token has succeeded

vars == <<request, response, issued>>

\* Python's None. A record, so that it compares with records and models.
None == [none |-> TRUE]

NoRequest == [route |-> "none"]

Pending == [kind |-> "pending"]

(***************************************************************************)
(* Responses.                                                              *)
(***************************************************************************)

\* fastapi.HTTPException(status_code, detail, headers) as the client sees it.
\* headers is a set of <<name, value>> pairs, empty when none are passed.
HTTPException(status_code, detail, headers) ==
    [kind |-> "HTTPException", status |-> status_code, detail |-> detail,
     headers |-> headers, body |-> None]

\* A handler's return value sent with the route's status code.
Result(status_code, body) ==
    [kind |-> "result", status |-> status_code, detail |-> "",
     headers |-> {}, body |-> body]

\* starlette.status constants used by the handlers.
HTTP_200_OK == 200

HTTP_201_CREATED == 201

HTTP_400_BAD_REQUEST == 400

HTTP_401_UNAUTHORIZED == 401

HTTP_422_UNPROCESSABLE_ENTITY == 422

\* FastAPI's answer when request validation fails: the handler does not run.
\* errors is the set of failing fields.
ValidationError(errors) ==
    [kind |-> "ValidationError", status |-> HTTP_422_UNPROCESSABLE_ENTITY,
     detail |-> "validation", headers |-> {}, body |-> [errors |-> errors]]

(***************************************************************************)
(* The user directory and the OAuth2 password flow.                        *)
(***************************************************************************)

fake_user_db ==
    [m \in {"johndoe", "alice"} |->
        IF m = "johndoe"
        THEN [membername |-> "johndoe", full_name |-> "John Doe",
              email |-> "johndoe@example.com",
              hashed_password |-> "fakehashedsecret1", disabled |-> FALSE]
        ELSE [membername |-> "alice", full_name |-> "Alice Wonderson",
              email |-> "alice@example.com",
              hashed_password |-> "fakehashedsecret2", disabled |-> TRUE]]

\* Variant: the hash without its prefix.
fake_hash_password_noprefix(password) == password

fake_hash_password(password) == "fakehashed" \o password

\* MemberInDB(**member_dict): the five declared fields, read from the dict.
MemberInDB(member_dict) ==
    [membername |-> member_dict.membername,
     email |-> member_dict.email,
     full_name |-> member_dict.full_name,
     disabled |-> member_dict.disabled,
     hashed_password |-> member_dict.hashed_password]

get_member(db, membername) ==
    IF membername \in DOMAIN db THEN MemberInDB(db[membername]) ELSE None

\* Variant: the lookup ignores the token.
fake_decode_token_fixed(token) == get_member(fake_user_db, "johndoe")

fake_decode_token(token) == get_member(fake_user_db, token)

\* str.lower() on the authorization schemes the model sends.
Lower(scheme) == IF scheme = "Bearer" THEN "bearer" ELSE scheme

\* OAuth2PasswordBearer(tokenUrl="token").__call__: the Authorization header
\* is <<>> when absent and <<scheme, param>> otherwise. The result is
\* [ok |-> TRUE, token |-> param] or [ok |-> FALSE, error |-> the 401].
oauth2_schema(authorization) ==
    IF authorization = <<>> \/ Lower(authorization[1]) # "bearer"
    THEN [ok |-> FALSE,
          error |-> HTTPException(HTTP_401_UNAUTHORIZED, "Not authenticated",
                                  {<<"WWW-Authenticate", "Bearer">>})]
    ELSE [ok |-> TRUE, token |-> authorization[2]]

\* Variant: the 401 without its challenge header.
get_current_menber_noheader(token) ==
    LET member == fake_decode_token(token)
    IN  IF member = None
        THEN [ok |-> FALSE,
              error |-> HTTPException(HTTP_401_UNAUTHORIZED,
                                      "Invalid authentication credentials", {})]
        ELSE [ok |-> TRUE, member |-> member]

\* Depends(oauth2_schema) has produced token. A pydantic model is truthy,
\* so "not member" is "member is None".
get_current_menber(token) ==
    LET member == fake_decode_token(token)
    IN  IF member = None
        THEN [ok |-> FALSE,
              error |-> HTTPException(HTTP_401_UNAUTHORIZED,
                                      "Invalid authentication credentials",
                                      {<<"WWW-Authenticate", "Bearer">>})]
        ELSE [ok |-> TRUE, member |-> member]

\* Variant: no disabled check.
get_current_active_member_nogate(current_member) ==
    [ok |-> TRUE, member |-> current_member]

\* Variant: the disabled member is answered 401.
get_current_active_member_401(current_member) ==
    IF current_member.disabled
    THEN [ok |-> FALSE,
          error |-> HTTPException(HTTP_401_UNAUTHORIZED, "Inactive member", {})]
    ELSE [ok |-> TRUE, member |-> current_member]

get_current_active_member(current_member) ==
    IF current_member.disabled
    THEN [ok |-> FALSE,
          error |-> HTTPException(HTTP_400_BAD_REQUEST, "Inactive member", {})]
    ELSE [ok |-> TRUE, member |-> current_member]

\* "not member_dict" for dict.get's result: None or an empty dict.
Falsy(member_dict) == member_dict = None \/ DOMAIN member_dict = {}

\* fake_user_db.get(username)
DbGet(username) ==
    IF username \in DOMAIN fake_user_db THEN fake_user_db[username] ELSE None

\* The handler body of POST /token for the parsed form.
login(form_data) ==
    LET member_dict == DbGet(form_data.username)
    IN  IF Falsy(member_dict)
        THEN HTTPException(HTTP_400_BAD_REQUEST,
                           "Incorrect username or password", {})
        ELSE LET member == MemberInDB(member_dict)
                 hashed_password == fake_hash_password(form_data.password)
             IN  IF ~(hashed_password = member.hashed_password)
                 THEN HTTPException(HTTP_400_BAD_REQUEST,
                                    "Incorrect username or password", {})
                 ELSE Result(HTTP_200_OK,
                             [access_token |-> member.membername,
                              token_type |-> "bearer"])

\* The route declares no response_model and no return annotation, so
\* FastAPI serialises the object the handler returns with every field it has.
get_me(current_member) == Result(HTTP_200_OK, current_member)

\* GET /users/me with its dependency chain
\* oauth2_schema -> get_current_menber -> get_current_active_member -> get_me.
users_me(authorization) ==
    LET bearer == oauth2_schema(authorization)
    IN  IF ~bearer.ok THEN bearer.error
        ELSE LET current == get_current_menber(bearer.token)
             IN  IF ~current.ok THEN current.error
                 ELSE LET active == get_current_active_member(current.member)
                      IN  IF ~active.ok THEN active.error
                          ELSE get_me(active.member)

(***************************************************************************)
(* Inputs of the OAuth2 flow.                                              *)
(***************************************************************************)

Usernames == {"johndoe", "alice", "bob", ""}

Passwords == {"secret1", "secret2", "secret", "", "fakehashedsecret1"}

Tokens == Usernames \cup {"JohnDoe", "fakehashedsecret1"}

Schemes == {"Bearer", "bearer", "Basic"}

Authorizations == {<<>>} \cup {<<s, t>> : s \in Schemes, t \in Tokens}

(***************************************************************************)
(* Actions of the OAuth2 flow.                                             *)
(***************************************************************************)

Idle == response # Pending

SendLogin ==
    /\ Idle
    /\ \E u \in Usernames, p \in Passwords :
         request' = [route |-> "login", username |-> u, password |-> p]
    /\ response' = Pending
    /\ UNCHANGED issued

SendMe ==
    /\ Idle
    /\ \E a \in Authorizations :
         request' = [route |-> "get_me", authorization |-> a]
    /\ response' = Pending
    /\ UNCHANGED issued

Login ==
    /\ response = Pending
    /\ request.route = "login"
    /\ response' = login(request)
    /\ issued' = IF response'.kind = "result"
                 THEN issued \cup {response'.body.access_token}
                 ELSE issued
    /\ UNCHANGED request

GetMe ==
    /\ response = Pending
    /\ request.route = "get_me"
    /\ response' = users_me(request.authorization)
    /\ UNCHANGED <<request, issued>>

Init ==
    /\ request = NoRequest
    /\ response = [kind |-> "none"]
    /\ issued = {}

Next == SendLogin \/ SendMe \/ Login \/ GetMe

Spec == Init /\ [][Next]_vars

(***************************************************************************)
(* decimal.Decimal under the default context (28 significant digits,       *)
(* ROUND_HALF_EVEN), as far as the handlers use it.                        *)
(*                                                                         *)
(* A Decimal is [sign, digits, exp] as in Decimal.as_tuple(): sign 0 or 1, *)
(* digits the coefficient's decimal digits, most significant first, and    *)
(* the value (-1)^sign * coefficient * 10^exp. Coefficients are computed   *)
(* on as naturals written least significant digit first, <<>> for 0.       *)
(***************************************************************************)

\* decimal.getcontext().prec
DecimalPrec == 28

Reverse(s) == [i \in 1..Len(s) |-> s[Len(s) + 1 - i]]

Zeros(k) == [i \in 1..k |-> 0]

SetMax(S) == CHOOSE m \in S : \A n \in S : n <= m

SetMin(S) == CHOOSE m \in S : \A n \in S : m <= n

\* a without its high zeros
NatTrim(a) ==
    LET nz == {i \in 1..Len(a) : a[i] # 0}
    IN  IF nz = {} THEN <<>> ELSE SubSeq(a, 1, SetMax(nz))

DigitAt(a, i) == IF i <= Len(a) THEN a[i] ELSE 0

\* The carry (or, negative, the borrow) into position k of the column sums.
RECURSIVE CarryInto(_, _)
CarryInto(cols, k) ==
    IF k = 1 THEN 0 ELSE (cols[k - 1] + CarryInto(cols, k - 1)) \div 10

\* The natural whose k-th digit column sums to cols[k]; the last column
\* absorbs the last carry.
NatOfColumns(cols) ==
    NatTrim([k \in 1..Len(cols) |-> (cols[k] + CarryInto(cols, k)) % 10])

NatAdd(a, b) ==
    LET n == (IF Len(a) > Len(b) THEN Len(a) ELSE Len(b)) + 1
    IN  NatOfColumns([k \in 1..n |-> DigitAt(a, k) + DigitAt(b, k)])

\* a - b, for a >= b
NatSub(a, b) ==
    NatOfColumns([k \in 1..Len(a) |-> a[k] - DigitAt(b, k)])

\* -1, 0 or 1 as a < b, a = b, a > b, for a and b without high zeros
NatCmp(a, b) ==
    IF Len(a) # Len(b) THEN (IF Len(a) < Len(b) THEN -1 ELSE 1)
    ELSE LET differ == {i \in 1..Len(a) : a[i] # b[i]}
         IN  IF differ = {} THEN 0
             ELSE IF a[SetMax(differ)] < b[SetMax(differ)] THEN -1 ELSE 1

\* a[1] * b[k] + a[2] * b[k-1] + ... + a[i] * b[k+1-i]
RECURSIVE ColumnSum(_, _, _, _)
ColumnSum(a, b, k, i) ==
    IF i = 0 THEN 0
    ELSE DigitAt(a, i) * (IF k + 1 - i >= 1 THEN DigitAt(b, k + 1 - i) ELSE 0)
         + ColumnSum(a, b, k, i - 1)

NatMul(a, b) ==
    NatOfColumns([k \in 1..(Len(a) + Len(b)) |->
                    ColumnSum(a, b, k, IF k < Len(a) THEN k ELSE Len(a))])

\* a * 10^k
NatShift(a, k) == IF a = <<>> THEN <<>> ELSE Zeros(k) \o a

NatNonZero(a) == \E i \in 1..Len(a) : a[i] # 0

\* The coefficient of a Decimal, and the digits of a coefficient.
Coef(x) == NatTrim(Reverse(x.digits))

Digits(n) == IF n = <<>> THEN <<0>> ELSE Reverse(n)

Decimal(sign, coef, exp) == [sign |-> sign, digits |-> Digits(coef), exp |-> exp]

DecimalIsZero(x) == Coef(x) = <<>>

\* Decimal._fix: round the coefficient to DecimalPrec digits, half to even.
DecimalFix(x) ==
    LET n == Len(x.digits)
    IN  IF n <= DecimalPrec THEN x
        ELSE LET drop == n - DecimalPrec
                 c    == Reverse(x.digits)
                 kept == SubSeq(c, drop + 1, n)
                 up   == \/ c[drop] > 5
                         \/ /\ c[drop] = 5
                            /\ \/ NatNonZero(SubSeq(c, 1, drop - 1))
                               \/ kept[1] % 2 = 1
                 r    == IF up THEN NatAdd(kept, <<1>>) ELSE kept
             IN  IF Len(r) > DecimalPrec
                 THEN Decimal(x.sign, SubSeq(r, 2, Len(r)), x.exp + drop + 1)
                 ELSE Decimal(x.sign, r, x.exp + drop)

\* The sum before rounding: both operands rescaled to the smaller exponent.
DecimalAddExact(a, b) ==
    LET e  == IF a.exp < b.exp THEN a.exp ELSE b.exp
        ca == NatShift(Coef(a), a.exp - e)
        cb == NatShift(Coef(b), b.exp - e)
        c  == NatCmp(ca, cb)
    IN  IF a.sign = b.sign THEN Decimal(a.sign, NatAdd(ca, cb), e)
        ELSE IF c = 0 THEN Decimal(0, <<>>, e)
        ELSE IF c > 0 THEN Decimal(a.sign, NatSub(ca, cb), e)
        ELSE Decimal(b.sign, NatSub(cb, ca), e)

\* Decimal.__add__
DecimalAdd(a, b) == DecimalFix(DecimalAddExact(a, b))

DecimalMulExact(a, b) ==
    Decimal((a.sign + b.sign) % 2, NatMul(Coef(a), Coef(b)), a.exp + b.exp)

\* Decimal.__mul__
DecimalMul(a, b) == DecimalFix(DecimalMulExact(a, b))

\* "while exp < ideal_exp and coeff % 10 == 0: coeff //= 10; exp += 1"
StripTo(coef, exp, ideal) ==
    IF exp >= ideal THEN [coef |-> coef, exp |-> exp]
    ELSE IF coef = <<>> THEN [coef |-> coef, exp |-> ideal]
    ELSE LET zeros == SetMin({i \in 1..Len(coef) : coef[i] # 0}) - 1
             n     == IF zeros < ideal - exp THEN zeros ELSE ideal - exp
         IN  [coef |-> SubSeq(coef, n + 1, Len(coef)), exp |-> exp + n]

\* Decimal.__truediv__ for the divisor Decimal(100), whose coefficient has
\* three digits and whose exponent is 0: divmod by 100 * 10^k drops the
\* k + 2 low digits of the dividend.
DecimalDivHundred(x) ==
    LET shift == 3 - Len(x.digits) + DecimalPrec + 1
        num   == IF shift >= 0 THEN NatShift(Coef(x), shift) ELSE Coef(x)
        k     == IF shift >= 0 THEN 2 ELSE 2 - shift
        quot  == NatTrim(SubSeq(num, k + 1, Len(num)))
        rem   == NatNonZero(SubSeq(num, 1, IF k < Len(num) THEN k ELSE Len(num)))
        low   == IF quot = <<>> THEN 0 ELSE Head(quot)
        exp   == x.exp - shift
    IN  IF rem
        THEN DecimalFix(Decimal(x.sign,
                                IF low % 5 = 0 THEN NatAdd(quot, <<1>>) ELSE quot,
                                exp))
        ELSE LET s == StripTo(quot, exp, x.exp)
             IN  DecimalFix(Decimal(x.sign, s.coef, s.exp))

\* bool(Decimal): a zero is falsy.
DecimalTruthy(x) == ~DecimalIsZero(x)

\* Decimal > 0
DecimalPositive(x) == x.sign = 0 /\ ~DecimalIsZero(x)

\* Decimal(100) and Decimal(1)
Decimal100 == [sign |-> 0, digits |-> <<1, 0, 0>>, exp |-> 0]

Decimal1 == [sign |-> 0, digits |-> <<1>>, exp |-> 0]

(***************************************************************************)
(* The item routes.                                                        *)
(***************************************************************************)

\* An optional str or list that is present. An absent one is None.
Some(v) == [some |-> v]

fake_items_db ==
    <<[item_name |-> "Foo"], [item_name |-> "Bar"], [item_name |-> "Baz"]>>

\* Where Python puts a slice bound i for a list of n elements.
SliceIndex(i, n) ==
    IF i < 0 THEN (IF i + n < 0 THEN 0 ELSE i + n)
    ELSE IF i > n THEN n ELSE i

\* list[start : stop]
Slice(list, start, stop) ==
    LET lo == SliceIndex(start, Len(list))
        hi == SliceIndex(stop, Len(list))
    IN  IF lo < hi THEN SubSeq(list, lo + 1, hi) ELSE <<>>

get_items(skip, limit) ==
    Result(HTTP_200_OK, Slice(fake_items_db, skip, skip + limit))

\* Path(ge=1)
ItemIdMin == 1

\* Query(min_length=5)
NeedlyMinLength == 5

\* Query(alias="item-query", min_length=3, max_length=10)
ItemQueryMinLength == 3

ItemQueryMaxLength == 10

Description == "This is an amazing item that has a long description"

\* The parameters of GET /items/{item_id} that fail their constraints.
get_item_by_id_errors(item_id, needly, q) ==
    {f \in {"item_id"} : item_id < ItemIdMin}
    \cup {f \in {"needly"} : Len(needly) < NeedlyMinLength}
    \cup {f \in {"item-query"} :
            /\ q # None
            /\ \E i \in 1..Len(q.some) :
                  \/ Len(q.some[i]) < ItemQueryMinLength
                  \/ Len(q.some[i]) > ItemQueryMaxLength}

get_item_by_id(item_id, needly, q, short) ==
    LET item   == [item_id |-> item_id, needly |-> needly]
        with_q == IF q # None /\ q.some # <<>>
                  THEN [q |-> q.some] @@ item ELSE item
    IN  Result(HTTP_200_OK,
               IF ~short THEN [description |-> Description] @@ with_q
               ELSE with_q)

get_user_item_by_id(user_id, item_id, q, short) ==
    LET item   == [item_id |-> item_id, owner_id |-> user_id]
        with_q == IF q # None /\ q.some # ""
                  THEN [q |-> q.some] @@ item ELSE item
    IN  Result(HTTP_200_OK,
               IF ~short THEN [description |-> Description] @@ with_q
               ELSE with_q)

\* Field(max_length=300)
DescriptionMaxLength == 300

\* pydantic's HttpUrl, reduced to: an http or https scheme and something
\* after it.
HttpUrl(url) ==
    \/ Len(url) > 7 /\ SubSeq(url, 1, 7) = "http://"
    \/ Len(url) > 8 /\ SubSeq(url, 1, 8) = "https://"

ItemFields == {"name", "description", "price", "tax", "tags", "image"}

\* The fields of an Item body that fail validation. A body is a record of
\* the six fields; a missing price is None. tax carries no constraint.
ItemErrors(body) ==
    {f \in {"description"} :
        body.description # None
        /\ Len(body.description.some) > DescriptionMaxLength}
    \cup {f \in {"price"} : body.price = None \/ ~DecimalPositive(body.price)}
    \cup {f \in {"image"} :
            /\ body.image # None
            /\ \E i \in 1..Len(body.image.some) : ~HttpUrl(body.image.some[i].url)}

\* Variant: the tax is added as a factor, not as a percentage.
create_item_percent(item) ==
    IF item.tax = None \/ ~DecimalTruthy(item.tax)
    THEN Result(HTTP_201_CREATED, item)
    ELSE Result(HTTP_201_CREATED,
                [price_with_tax |->
                    DecimalMul(item.price,
                               DecimalAdd(item.tax, Decimal1))] @@ item)

\* The handler body of POST /items for the validated item.
create_item(item) ==
    IF item.tax = None \/ ~DecimalTruthy(item.tax)
    THEN Result(HTTP_201_CREATED, item)
    ELSE LET price_with_tax ==
                 DecimalMul(item.price,
                            DecimalAdd(DecimalDivHundred(item.tax), Decimal1))
         IN  Result(HTTP_201_CREATED,
                    [price_with_tax |-> price_with_tax] @@ item)

\* The handler body of PUT /items/{item_id}.
put_item(item_id, item, q) ==
    LET result == [item_id |-> item_id] @@ item
    IN  Result(HTTP_201_CREATED,
               IF q # None /\ q.some # "" THEN [q |-> q.some] @@ result
               ELSE result)

(***************************************************************************)
(* Inputs of the item routes.                                              *)
(***************************************************************************)

MaxSkip == 4

MaxLimit == 4

MaxId == 3

\* limit: int = 10
DefaultLimit == 10

Skips == (-MaxSkip..MaxSkip) \cup {10}

Limits == (-MaxLimit..MaxLimit) \cup {DefaultLimit}

Ids == -1..MaxId

Needlies == {"abcd", "abcde", "needly-value"}

ItemQueries == {None, Some(<<"foo", "bar", "baz">>), Some(<<"ab">>)}

Queries == {None, Some(""), Some("x")}

Seventeen == <<1, 2, 3, 4, 5, 6, 7, 8, 9, 0, 1, 2, 3, 4, 5, 6, 7>>

\* 10.00, 19.99, 1, 1.2345678901234567, 0, -1
Prices ==
    {[sign |-> 0, digits |-> <<1, 0, 0, 0>>, exp |-> -2],
     [sign |-> 0, digits |-> <<1, 9, 9, 9>>, exp |-> -2],
     [sign |-> 0, digits |-> <<1>>, exp |-> 0],
     [sign |-> 0, digits |-> Seventeen, exp |-> -16],
     [sign |-> 0, digits |-> <<0>>, exp |-> 0],
     [sign |-> 1, digits |-> <<1>>, exp |-> 0]}

\* absent, 0, 0.0, 10, 8.5, -5, -100, 1E-26, 1.2345678901234567
Taxes ==
    {None,
     [sign |-> 0, digits |-> <<0>>, exp |-> 0],
     [sign |-> 0, digits |-> <<0>>, exp |-> -1],
     [sign |-> 0, digits |-> <<1, 0>>, exp |-> 0],
     [sign |-> 0, digits |-> <<8, 5>>, exp |-> -1],
     [sign |-> 1, digits |-> <<5>>, exp |-> 0],
     [sign |-> 1, digits |-> <<1, 0, 0>>, exp |-> 0],
     [sign |-> 0, digits |-> <<1>>, exp |-> -26],
     [sign |-> 0, digits |-> Seventeen, exp |-> -16]}

Ten == "0123456789"

Fifty == Ten \o Ten \o Ten \o Ten \o Ten

ThreeHundred == Fifty \o Fifty \o Fifty \o Fifty \o Fifty \o Fifty

Descriptions == {None, Some("A very nice item"), Some(ThreeHundred),
                 Some(ThreeHundred \o "0")}

Images ==
    {None,
     Some(<<[url |-> "http://example.com/baz.jpg", name |-> "The Foo live"]>>),
     Some(<<[url |-> "https://example.com/a.png", name |-> "a"],
            [url |-> "example.com/b.png", name |-> "b"]>>)}

ItemBase ==
    [name |-> "Foo", description |-> None,
     price |-> [sign |-> 0, digits |-> <<1, 0, 0, 0>>, exp |-> -2],
     tax |-> None, tags |-> {}, image |-> None]

ItemBodies ==
    {[ItemBase EXCEPT !.price = p, !.tax = t] :
        p \in Prices \cup {None}, t \in Taxes}
    \cup {[ItemBase EXCEPT !.description = d] : d \in Descriptions}
    \cup {[ItemBase EXCEPT !.tags = t] : t \in {{"rock"}, {"rock", "metal"}}}
    \cup {[ItemBase EXCEPT !.image = i] : i \in Images}

(***************************************************************************)
(* Actions of the item routes.                                             *)
(***************************************************************************)

SendGetItems ==
    /\ Idle
    /\ \E skip \in Skips, limit \in Limits :
         request' = [route |-> "get_items", skip |-> skip, limit |-> limit]
    /\ response' = Pending
    /\ UNCHANGED issued

SendGetItemById ==
    /\ Idle
    /\ \E item_id \in Ids, needly \in Needlies, q \in ItemQueries,
          short \in BOOLEAN :
         request' = [route |-> "get_item_by_id", item_id |-> item_id,
                     needly |-> needly, q |-> q, short |-> short]
    /\ response' = Pending
    /\ UNCHANGED issued

SendGetUserItemById ==
    /\ Idle
    /\ \E user_id \in Ids, item_id \in Ids, q \in Queries, short \in BOOLEAN :
         request' = [route |-> "get_user_item_by_id", user_id |-> user_id,
                     item_id |-> item_id, q |-> q, short |-> short]
    /\ response' = Pending
    /\ UNCHANGED issued

SendCreateItem ==
    /\ Idle
    /\ \E item \in ItemBodies :
         request' = [route |-> "create_item", item |-> item]
    /\ response' = Pending
    /\ UNCHANGED issued

SendPutItem ==
    /\ Idle
    /\ \E item_id \in Ids, item \in ItemBodies, q \in Queries :
         request' = [route |-> "put_item", item_id |-> item_id,
                     item |-> item, q |-> q]
    /\ response' = Pending
    /\ UNCHANGED issued

GetItems ==
    /\ response = Pending
    /\ request.route = "get_items"
    /\ response' = get_items(request.skip, request.limit)
    /\ UNCHANGED <<request, issued>>

GetItemById ==
    /\ response = Pending
    /\ request.route = "get_item_by_id"
    /\ LET errors == get_item_by_id_errors(request.item_id, request.needly,
                                           request.q)
       IN  response' = IF errors # {} THEN ValidationError(errors)
                       ELSE get_item_by_id(request.item_id, request.needly,
                                           request.q, request.short)
    /\ UNCHANGED <<request, issued>>

GetUserItemById ==
    /\ response = Pending
    /\ request.route = "get_user_item_by_id"
    /\ response' = get_user_item_by_id(request.user_id, request.item_id,
                                       request.q, request.short)
    /\ UNCHANGED <<request, issued>>

CreateItem ==
    /\ response = Pending
    /\ request.route = "create_item"
    /\ LET errors == ItemErrors(request.item)
       IN  response' = IF errors # {} THEN ValidationError(errors)
                       ELSE create_item(request.item)
    /\ UNCHANGED <<request, issued>>

PutItem ==
    /\ response = Pending
    /\ request.route = "put_item"
    /\ LET errors == ItemErrors(request.item)
       IN  response' = IF errors # {} THEN ValidationError(errors)
                       ELSE put_item(request.item_id, request.item, request.q)
    /\ UNCHANGED <<request, issued>>

NextItems ==
    \/ SendGetItems \/ SendGetItemById \/ SendGetUserItemById
    \/ SendCreateItem \/ SendPutItem
    \/ GetItems \/ GetItemById \/ GetUserItemById \/ CreateItem \/ PutItem

SpecItems == Init /\ [][NextItems]_vars

(***************************************************************************)
(* Properties of the OAuth2 flow.                                          *)
(***************************************************************************)

Answered(route) == request.route = route /\ response # Pending

\* GET /users/me has been answered for a request that presented a bearer token.
BearerPresented ==
    /\ Answered("get_me")
    /\ request.authorization # <<>>
    /\ Lower(request.authorization[1]) = "bearer"

PresentedToken == request.authorization[2]

ProfileFields == {"membername", "email", "full_name", "disabled"}

Challenge == <<"WWW-Authenticate", "Bearer">>

\* The submitted credentials are those of a directory member.
GoodCredentials(username, password) ==
    /\ username \in DOMAIN fake_user_db
    /\ "fakehashed" \o password = fake_user_db[username].hashed_password

\* C1: the outcome of GET /users/me for bearer token t is fixed by the
\* directory: 401 with WWW-Authenticate: Bearer when t is no key, 400
\* "Inactive member" when t's member is disabled, and otherwise the handler's
\* result carrying that member's profile fields.
C1_TokenOutcome ==
    BearerPresented =>
        LET t == PresentedToken
        IN  IF t \notin DOMAIN fake_user_db
            THEN /\ response.kind = "HTTPException"
                 /\ response.status = 401
                 /\ Challenge \in response.headers
            ELSE IF fake_user_db[t].disabled
            THEN /\ response.kind = "HTTPException"
                 /\ response.status = 400
                 /\ response.detail = "Inactive member"
            ELSE /\ response.kind = "result"
                 /\ \A f \in ProfileFields :
                        response.body[f] = fake_user_db[t][f]

C1_Witness ==
    /\ BearerPresented
    /\ PresentedToken = "alice"
    /\ response.kind = "HTTPException"
    /\ response.detail = "Inactive member"

\* C2: POST /token succeeds exactly for a directory member whose stored hash
\* is "fakehashed" + password, answering {access_token: membername,
\* token_type: "bearer"}; every other submission gets one and the same 400
\* "Incorrect username or password" response.
C2_LoginOutcome ==
    Answered("login") =>
        IF GoodCredentials(request.username, request.password)
        THEN response = Result(200, [access_token |-> request.username,
                                     token_type |-> "bearer"])
        ELSE response = HTTPException(400, "Incorrect username or password", {})

C2_Witness ==
    /\ Answered("login")
    /\ request.username = "johndoe"
    /\ request.password = "secret1"
    /\ response.kind = "result"
    /\ response.body.access_token = "johndoe"

\* C3 (as claimed): a successful GET /users/me carries exactly the fields
\* membername, email, full_name and disabled.
C3_ProfileFieldsOnly ==
    (Answered("get_me") /\ response.kind = "result") =>
        DOMAIN response.body = ProfileFields

\* Every response the inputs can draw for an authentication failure:
\* bad credentials at POST /token, a missing or unknown token at GET /users/me.
LoginFailures ==
    {login([username |-> u, password |-> p]) :
        <<u, p>> \in {c \in Usernames \X Passwords : ~GoodCredentials(c[1], c[2])}}

TokenFailures ==
    {users_me(a) :
        a \in {h \in Authorizations :
                 \/ h = <<>>
                 \/ Lower(h[1]) # "bearer"
                 \/ h[2] \notin DOMAIN fake_user_db}}

\* The active-user gate has rejected a recognised but disabled member.
AuthorizationErrorCase ==
    /\ BearerPresented
    /\ PresentedToken \in DOMAIN fake_user_db
    /\ fake_user_db[PresentedToken].disabled

\* An authentication failure has been answered.
AuthenticationErrorCase ==
    \/ /\ Answered("login")
       /\ ~GoodCredentials(request.username, request.password)
    \/ /\ Answered("get_me")
       /\ \/ ~BearerPresented
          \/ PresentedToken \notin DOMAIN fake_user_db

\* C8 (as claimed): the status of an AuthorizationError response differs
\* from the status of every AuthenticationError response.
C8_StatusDistinct ==
    AuthorizationErrorCase =>
        \A r \in LoginFailures \cup TokenFailures : r.status # response.status

\* C8 (amended): the status of an AuthorizationError response differs from
\* that of every token failure of GET /users/me, and equals that of the
\* bad-credentials failure of POST /token, from which only the detail
\* message tells it apart.
C8_StatusDistinctFromTokenFailures ==
    AuthorizationErrorCase =>
        /\ \A r \in TokenFailures : r.status # response.status
        /\ \A r \in LoginFailures :
              r.status = response.status /\ r.detail # response.detail

C8_Witness ==
    /\ AuthorizationErrorCase
    /\ response.status = 400
    /\ LoginFailures # {}
    /\ TokenFailures # {}

\* C9 (as claimed): every AuthenticationError response carries
\* WWW-Authenticate: Bearer.
C9_ChallengeEverywhere ==
    AuthenticationErrorCase => Challenge \in response.headers

\* C9 (amended): an authentication failure of GET /users/me is a 401 that
\* carries WWW-Authenticate: Bearer; the bad-credentials failure of
\* POST /token is a 400 that carries no header.
C9_ChallengeOnTokenFailures ==
    AuthenticationErrorCase =>
        IF request.route = "get_me"
        THEN response.status = 401 /\ Challenge \in response.headers
        ELSE response.status = 400 /\ response.headers = {}

C9_Witness ==
    /\ AuthenticationErrorCase
    /\ BearerPresented
    /\ PresentedToken = "bob"
    /\ response.kind = "HTTPException"

\* GET /users/me has run its handler for the member it resolved (Active).
Active == Answered("get_me") /\ response.kind = "result"

\* C10 (as claimed): Active for member m is reached only after POST /token
\* has succeeded for m.
C10_TokenIssuedBeforeActive ==
    Active => response.body.membername \in issued

\* C10 (amended): Active is reached exactly when the presented bearer token
\* is the membername of an enabled directory member, and then for that
\* member; whether POST /token has succeeded before plays no part.
C10_ActiveIffEnabledMemberToken ==
    BearerPresented =>
        /\ Active <=> /\ PresentedToken \in DOMAIN fake_user_db
                      /\ ~fake_user_db[PresentedToken].disabled
        /\ Active => response.body.membername = PresentedToken

\* Active reached although no login has ever succeeded.
C10_Witness == Active /\ issued = {}

(***************************************************************************)
(* Properties of the item routes.                                          *)
(***************************************************************************)

\* A Decimal's value: its coefficient without low zeros (least significant
\* digit first), its exponent raised to match, and its sign; 0 has one form.
DecimalValue(x) ==
    IF DecimalIsZero(x) THEN [sign |-> 0, coef |-> <<>>, exp |-> 0]
    ELSE LET s == StripTo(Coef(x), x.exp, x.exp + Len(x.digits))
         IN  [sign |-> x.sign, coef |-> s.coef, exp |-> s.exp]

SignificantDigits(x) == Len(DecimalValue(x).coef)

\* price * (100 + tax) / 100 with every digit kept.
ExactPriceWithTax(price, tax) ==
    LET p == DecimalMulExact(price, DecimalAddExact(Decimal100, tax))
    IN  [p EXCEPT !.exp = @ - 2]

\* 1 + tax/100 with every digit kept.
ExactFactor(tax) ==
    LET s == DecimalAddExact(Decimal100, tax) IN [s EXCEPT !.exp = @ - 2]

BodyKeepsItem(body, item) == \A f \in ItemFields : body[f] = item[f]

\* POST /items has answered with a handler result for an item whose tax is
\* a non-zero number.
Taxed ==
    /\ Answered("create_item")
    /\ response.kind = "result"
    /\ request.item.tax # None
    /\ ~DecimalIsZero(request.item.tax)

\* C4 (as claimed): an item whose tax is present and <= 0 never reaches the
\* handlers of POST /items and PUT /items/{item_id}; it draws a
\* ValidationError.
C4_NonPositiveTaxRejected ==
    (/\ Answered("create_item") \/ Answered("put_item")
     /\ request.item.tax # None
     /\ ~DecimalPositive(request.item.tax))
        => response.kind = "ValidationError"

\* C5 (as claimed): POST /items returns a valid item unchanged when tax is
\* absent or zero, and otherwise the item's fields plus price_with_tax equal
\* to price * (100 + tax) / 100 with no rounding.
C5_PriceWithTaxExact ==
    (Answered("create_item") /\ response.kind = "result") =>
        IF ~Taxed THEN response.body = request.item
        ELSE /\ DOMAIN response.body = ItemFields \cup {"price_with_tax"}
             /\ BodyKeepsItem(response.body, request.item)
             /\ DecimalValue(response.body.price_with_tax)
                  = DecimalValue(ExactPriceWithTax(request.item.price,
                                                   request.item.tax))

\* tax, 1 + tax/100 and price * (1 + tax/100) each need no more significant
\* digits than the decimal context keeps.
FitsPrecision(price, tax) ==
    /\ SignificantDigits(tax) <= DecimalPrec
    /\ SignificantDigits(ExactFactor(tax)) <= DecimalPrec
    /\ SignificantDigits(ExactPriceWithTax(price, tax)) <= DecimalPrec

\* C5 (amended): the same, with price_with_tax equal to
\* price * (100 + tax) / 100 whenever tax, 1 + tax/100 and the product each
\* need at most 28 significant digits.
C5_PriceWithTaxExactWithinPrecision ==
    (Answered("create_item") /\ response.kind = "result") =>
        IF ~Taxed THEN response.body = request.item
        ELSE /\ DOMAIN response.body = ItemFields \cup {"price_with_tax"}
             /\ BodyKeepsItem(response.body, request.item)
             /\ FitsPrecision(request.item.price, request.item.tax) =>
                  DecimalValue(response.body.price_with_tax)
                    = DecimalValue(ExactPriceWithTax(request.item.price,
                                                     request.item.tax))

\* price = 10.00 and tax = 10 have given price_with_tax = 11.
C5_Witness ==
    /\ Taxed
    /\ request.item.price = [sign |-> 0, digits |-> <<1, 0, 0, 0>>, exp |-> -2]
    /\ request.item.tax = [sign |-> 0, digits |-> <<1, 0>>, exp |-> 0]
    /\ DecimalValue(response.body.price_with_tax)
         = [sign |-> 0, coef |-> <<1, 1>>, exp |-> 0]

\* The elements of fake_items_db at 0-based positions skip .. skip+limit-1,
\* in list order.
RunOfItems(skip, limit) ==
    LET lo == IF skip < 0 THEN 0 ELSE skip
        hi == IF skip + limit > Len(fake_items_db)
              THEN Len(fake_items_db) ELSE skip + limit
    IN  IF lo < hi THEN [i \in 1..(hi - lo) |-> fake_items_db[lo + i]] ELSE <<>>

\* C6 (as claimed): GET /items returns the elements at positions
\* skip .. skip+limit-1, and the empty sequence whenever skip < 0 or
\* skip >= 3.
C6_ContiguousRun ==
    Answered("get_items") =>
        /\ response.kind = "result"
        /\ response.body = RunOfItems(request.skip, request.limit)
        /\ (request.skip < 0 \/ request.skip >= Len(fake_items_db))
              => response.body = <<>>

\* C6 for skip >= 0 and limit >= 0, where it holds.
GetItemsNonNegative ==
    (Answered("get_items") /\ request.skip >= 0 /\ request.limit >= 0) =>
        /\ response.kind = "result"
        /\ response.body = RunOfItems(request.skip, request.limit)
        /\ request.skip >= Len(fake_items_db) => response.body = <<>>

\* C7 (as claimed): on the three routes with item_id or user_id in the
\* path, a value <= 0 draws a ValidationError, and a handler result carries
\* item_id >= 1 and, where present, owner_id >= 1.
C7_PositivePathIds ==
    (\/ Answered("get_item_by_id")
     \/ Answered("get_user_item_by_id")
     \/ Answered("put_item")) =>
        /\ (\/ request.item_id <= 0
            \/ request.route = "get_user_item_by_id" /\ request.user_id <= 0)
              => response.kind = "ValidationError"
        /\ response.kind = "result" =>
              /\ response.body.item_id >= 1
              /\ "owner_id" \in DOMAIN response.body
                    => response.body.owner_id >= 1

\* C7 on GET /items/{item_id} alone, where it holds.
GetItemByIdPositive ==
    Answered("get_item_by_id") =>
        /\ request.item_id <= 0 => response.kind = "ValidationError"
        /\ response.kind = "result" => response.body.item_id >= 1

====
